---- MODULE Spec2Model ----
(***************************************************************************)
(* Model of the realtor voice/SMS gateway.                                 *)
(*   Spec          websocket_handler and its handle_message tasks          *)
(*                 (app-retell/server.py)                                  *)
(*   SpecAssistant Assistant.__call__            (src/util.py)             *)
(*   SpecCriteria  update_search_criteria as the reducer of                *)
(*                 State.search_criteria         (src/util.py)             *)
(***************************************************************************)
EXTENDS Integers, Sequences, FiniteSets, TLC

(* ---------------------------- bounds ----------------------------------- *)
MaxEvents == 3            \* inbound websocket frames per session
ResponseIds == {1, 2}     \* response ids of inbound events
Timestamps == {11, 12}    \* ping_pong timestamps
FragmentNumbers == {1, 2} \* positions of a fragment in one generation
\* A session asks for at most as many generations as there are response ids.
MaxGen == Cardinality(ResponseIds)

VARIABLES
    hpc,          \* position of websocket_handler: "accept", "loop", "ended"
    wsState,      \* "connecting", "open", "disconnected", "closed"
    response_id,  \* the nonlocal response_id of websocket_handler
    outbound,     \* events sent on the websocket, in send order
    tasks,        \* handle_message tasks in creation order
    apc,          \* Assistant.__call__: "idle", "loop", "returned"
    astate,       \* its local state: messages and user_info
    aresult,      \* its local result
    ainvocations, \* number of runnable.invoke calls made
    stub,         \* the runnable: "any" or "always_empty"
    search_criteria, \* State.search_criteria
    nupdates,     \* number of updates folded into it
    prior,        \* search_criteria before the first update
    supplied,     \* fields some update carried
    lastNonNull,  \* per field, the last non-null value an update carried
    tpc,          \* the process_criteria node: "idle", "node", "returned", "raised"
    tstate,       \* the graph State it runs on: messages and search_criteria
    tbefore,      \* that State as it was when the node was entered
    ngraphs,      \* graphs made by create_graph so far
    nuuids,       \* thread ids drawn from uuid.uuid4 so far
    sessions,     \* the sessions served, each with the graph and thread id it ran on
    wpc,          \* handle_webhook: "idle", "request", "done"
    wreq,         \* the webhook request
    wresp         \* its response and what the handler read and printed

wsvars == <<hpc, wsState, response_id, outbound, tasks>>
avars == <<apc, astate, aresult, ainvocations, stub>>
cvars == <<search_criteria, nupdates, prior, supplied, lastNonNull>>
tvars == <<tpc, tstate, tbefore>>
svars == <<ngraphs, nuuids, sessions>>
wvars == <<wpc, wreq, wresp>>
vars == <<hpc, wsState, response_id, outbound, tasks,
          apc, astate, aresult, ainvocations, stub,
          search_criteria, nupdates, prior, supplied, lastNonNull,
          tpc, tstate, tbefore, ngraphs, nuuids, sessions, wpc, wreq, wresp>>

(***************************************************************************)
(*                      websocket_handler (server.py)                      *)
(***************************************************************************)

(* ------------------------- inbound events ------------------------------ *)
GenTypes == {"response_required", "reminder_required"}

\* The keys an event of each interaction_type carries when well formed.
Required(itype) ==
    IF itype = "ping_pong" THEN {"interaction_type", "timestamp"}
    ELSE IF itype \in GenTypes
         THEN {"interaction_type", "response_id", "transcript"}
         ELSE {"interaction_type"}

\* request_json[k] raises KeyError exactly when k is not a key of the dict.
Has(ev, k) == k \in ev.keys

Event(itype, rid, ts, keys) ==
    [keys |-> keys, interaction_type |-> itype, response_id |-> rid,
     timestamp |-> ts, transcript |-> 0]

WellFormedEvents ==
    {Event("call_details", 0, 0, Required("call_details")),
     Event("update_only", 0, 0, Required("update_only"))}
    \cup {Event("ping_pong", 0, ts, Required("ping_pong")) : ts \in Timestamps}
    \cup {Event(g, r, 0, Required(g)) : g \in GenTypes, r \in ResponseIds}

\* An event that lacks one required key.  What the handler never reads
\* before the KeyError is left at its default.
MalformedEvents ==
    {Event("", 0, 0, {})}
    \cup {Event("ping_pong", 0, 0, {"interaction_type"})}
    \cup {Event(g, 0, 0, {"interaction_type", "transcript"}) : g \in GenTypes}
    \cup {Event(g, r, 0, {"interaction_type", "response_id"}) :
              g \in GenTypes, r \in ResponseIds}

WellFormed(ev) ==
    /\ Has(ev, "interaction_type")
    /\ Required(ev.interaction_type) \subseteq ev.keys

IsGenEvent(ev) ==
    Has(ev, "interaction_type") /\ ev.interaction_type \in GenTypes

(* --------------------------- outbound events --------------------------- *)
\* ev is the index of the task that sent the event (0: the handler itself),
\* n the position of a fragment in its generation.
Out(rtype, rid, ts, n, complete, transcript, ev) ==
    [response_type |-> rtype, response_id |-> rid, timestamp |-> ts, n |-> n,
     content_complete |-> complete, transcript |-> transcript, ev |-> ev]

ConfigEvent == Out("config", 1, 0, 0, FALSE, 0, 0)

draft_begin_message == Out("response", 0, 0, 1, TRUE, 0, 0)

PingEcho(ev, i) == Out("ping_pong", 0, ev.timestamp, 0, FALSE, 0, i)

\* The n-th event draft_response yields for a request.
draft_response(req, n, complete, i) ==
    Out("response", req.response_id, 0, n, complete, req.transcript, i)

(* ------------------------------ tasks ---------------------------------- *)
\* pc of a task: "ready" (created, not started), "gen" (waiting for the
\* generator), "sent" (inside send_json, before the check of line 177),
\* "done", "abandoned" (break of line 178), "key_error", "draft_error",
\* "send_error" (ended by that exception).
Terminal == {"done", "abandoned", "key_error", "draft_error", "send_error"}

NoRequest == [interaction_type |-> "", response_id |-> 0, transcript |-> 0]

NewTask(ev) == [ev |-> ev, pc |-> "ready", req |-> NoRequest, n |-> 0,
               last |-> FALSE]

ResponseRequiredRequest(ev, rid) ==
    [interaction_type |-> ev.interaction_type, response_id |-> rid,
     transcript |-> ev.transcript]

\* A handler that only ever raises the active id.
NewActiveMonotonic(ev, cur) ==
    IF ev.response_id > cur THEN ev.response_id ELSE cur

\* line 165: response_id = request_json["response_id"]
NewActive(ev, cur) == ev.response_id

\* A check that also abandons a generation whose id is the active one.
SupersededOrEqual(req, active) == req.response_id <= active

\* line 177: if request.response_id < response_id: break
Superseded(req, active) == req.response_id < active

\* A generator that is restarted and yields its previous event again.
NextFragmentRepeats(t) == IF t.n = 0 THEN 1 ELSE t.n

\* line 175: the position of the event the generator yields next
NextFragment(t) == t.n + 1

\* Tasks awaited one after the other instead of run by create_task.
FirstReadySerial(i) ==
    /\ i \in DOMAIN tasks
    /\ tasks[i].pc = "ready"
    /\ \A j \in 1..(i - 1) : tasks[j].pc \in Terminal

\* asyncio runs the tasks made by create_task in creation order: the task
\* that takes its first step is the oldest one that has not started.
FirstReady(i) ==
    /\ i \in DOMAIN tasks
    /\ tasks[i].pc = "ready"
    /\ \A j \in 1..(i - 1) : tasks[j].pc # "ready"

\* A socket that still delivers after the session ended.
SendOutcomesAlways == {"sent"}

\* websocket.send_json: the event reaches the peer only on an open socket;
\* once the socket is closed or the peer is gone the send raises.
SendOutcomes == IF wsState = "open" THEN {"sent"} ELSE {"raised"}

NumGen == Cardinality({i \in DOMAIN tasks : IsGenEvent(tasks[i].ev)})

NoMalformedYet == \A i \in DOMAIN tasks : WellFormed(tasks[i].ev)

\* The events the model lets arrive next.
Receivable ==
    {e \in WellFormedEvents \cup MalformedEvents :
        /\ (~WellFormed(e) => NoMalformedYet)
        /\ (IsGenEvent(e) => NumGen < MaxGen)}

(* ------------------------------ handler -------------------------------- *)
WsInit ==
    /\ hpc = "accept"
    /\ wsState = "connecting"
    /\ response_id = 0
    /\ outbound = <<>>
    /\ tasks = <<>>

\* A handshake that greets before it configures.
AcceptBeginFirst ==
    /\ UNCHANGED <<avars, cvars, tvars, svars, wvars>>
    /\ hpc = "accept"
    /\ hpc' = "loop"
    /\ wsState' = "open"
    /\ response_id' = 0
    /\ outbound' = <<draft_begin_message, ConfigEvent>>
    /\ UNCHANGED tasks

\* lines 121-141: accept, send config, set response_id, send begin message
Accept ==
    /\ UNCHANGED <<avars, cvars, tvars, svars, wvars>>
    /\ hpc = "accept"
    /\ hpc' = "loop"
    /\ wsState' = "open"
    /\ response_id' = 0
    /\ outbound' = <<ConfigEvent, draft_begin_message>>
    /\ UNCHANGED tasks

\* lines 180-181: one iteration of the receive loop
Receive ==
    /\ UNCHANGED <<avars, cvars, tvars, svars, wvars>>
    /\ hpc = "loop"
    /\ Len(tasks) < MaxEvents
    /\ \E e \in Receivable :
          tasks' = Append(tasks,
                     NewTask([e EXCEPT !.transcript =
                        IF Has(e, "transcript") THEN Len(tasks) + 1 ELSE 0]))
    /\ UNCHANGED <<hpc, wsState, response_id, outbound>>

\* lines 180, 190-191: the peer disconnects; iter_json ends
Disconnect ==
    /\ UNCHANGED <<avars, cvars, tvars, svars, wvars>>
    /\ hpc = "loop"
    /\ Len(tasks) < MaxEvents
    /\ hpc' = "ended"
    /\ wsState' = "disconnected"
    /\ UNCHANGED <<response_id, outbound, tasks>>

\* lines 180, 187-191: a frame that is not JSON raises out of iter_json
ReceiveInvalidFrame ==
    /\ UNCHANGED <<avars, cvars, tvars, svars, wvars>>
    /\ hpc = "loop"
    /\ Len(tasks) < MaxEvents
    /\ hpc' = "ended"
    /\ wsState' = "closed"
    /\ UNCHANGED <<response_id, outbound, tasks>>

(* --------------------------- handle_message ---------------------------- *)
SetTask(i, pc) == tasks' = [tasks EXCEPT ![i].pc = pc]

\* line 148 raises KeyError when interaction_type is missing
HandleNoType(i) ==
    /\ UNCHANGED <<avars, cvars, tvars, svars, wvars>>
    /\ FirstReady(i)
    /\ ~Has(tasks[i].ev, "interaction_type")
    /\ SetTask(i, "key_error")
    /\ UNCHANGED <<hpc, wsState, response_id, outbound>>

\* A call_details branch that acknowledges the event on the socket.
HandleCallDetailsAcks(i) ==
    /\ UNCHANGED <<avars, cvars, tvars, svars, wvars>>
    /\ FirstReady(i)
    /\ Has(tasks[i].ev, "interaction_type")
    /\ tasks[i].ev.interaction_type = "call_details"
    /\ SetTask(i, "done")
    /\ outbound' = Append(outbound, Out("call_details", 0, 0, 0, FALSE, 0, i))
    /\ UNCHANGED <<hpc, wsState, response_id>>

\* lines 148-150
HandleCallDetails(i) ==
    /\ UNCHANGED <<avars, cvars, tvars, svars, wvars>>
    /\ FirstReady(i)
    /\ Has(tasks[i].ev, "interaction_type")
    /\ tasks[i].ev.interaction_type = "call_details"
    /\ SetTask(i, "done")
    /\ UNCHANGED <<hpc, wsState, response_id, outbound>>

\* lines 151-158
HandlePingPong(i) ==
    /\ UNCHANGED <<avars, cvars, tvars, svars, wvars>>
    /\ FirstReady(i)
    /\ Has(tasks[i].ev, "interaction_type")
    /\ tasks[i].ev.interaction_type = "ping_pong"
    /\ IF ~Has(tasks[i].ev, "timestamp")
       THEN SetTask(i, "key_error") /\ UNCHANGED outbound
       ELSE \E o \in SendOutcomes :
              /\ outbound' = IF o = "sent"
                             THEN Append(outbound, PingEcho(tasks[i].ev, i))
                             ELSE outbound
              /\ SetTask(i, IF o = "raised" THEN "send_error" ELSE "done")
    /\ UNCHANGED <<hpc, wsState, response_id>>

\* lines 159-160
HandleUpdateOnly(i) ==
    /\ UNCHANGED <<avars, cvars, tvars, svars, wvars>>
    /\ FirstReady(i)
    /\ Has(tasks[i].ev, "interaction_type")
    /\ tasks[i].ev.interaction_type = "update_only"
    /\ SetTask(i, "done")
    /\ UNCHANGED <<hpc, wsState, response_id, outbound>>

\* lines 161-175: up to the first wait on the generator
HandleResponseRequired(i) ==
    /\ UNCHANGED <<avars, cvars, tvars, svars, wvars>>
    /\ FirstReady(i)
    /\ Has(tasks[i].ev, "interaction_type")
    /\ tasks[i].ev.interaction_type \in GenTypes
    /\ IF ~Has(tasks[i].ev, "response_id")
       THEN SetTask(i, "key_error") /\ UNCHANGED response_id
       ELSE /\ response_id' = NewActive(tasks[i].ev, response_id)
            /\ IF ~Has(tasks[i].ev, "transcript")
               THEN SetTask(i, "key_error")
               ELSE tasks' = [tasks EXCEPT
                      ![i].pc = "gen",
                      ![i].req = ResponseRequiredRequest(tasks[i].ev,
                                                        response_id')]
    /\ UNCHANGED <<hpc, wsState, outbound>>

\* lines 175-176: draft_response yields its next event and it is sent
SendFragment(i) ==
    /\ UNCHANGED <<avars, cvars, tvars, svars, wvars>>
    /\ i \in DOMAIN tasks
    /\ tasks[i].pc = "gen"
    /\ tasks[i].n + 1 \in FragmentNumbers
    /\ \E complete \in BOOLEAN, o \in SendOutcomes :
          /\ (tasks[i].n + 2 \notin FragmentNumbers => complete)
          /\ outbound' = IF o = "sent"
                         THEN Append(outbound,
                                draft_response(tasks[i].req,
                                               NextFragment(tasks[i]),
                                               complete, i))
                         ELSE outbound
          /\ tasks' = [tasks EXCEPT
                 ![i].pc = IF o = "raised" THEN "send_error" ELSE "sent",
                 ![i].n = @ + 1,
                 ![i].last = complete]
    /\ UNCHANGED <<hpc, wsState, response_id>>

\* A check that lets a superseded generation stream on.
CheckSupersededIgnores(i) ==
    /\ UNCHANGED <<avars, cvars, tvars, svars, wvars>>
    /\ i \in DOMAIN tasks
    /\ tasks[i].pc = "sent"
    /\ SetTask(i, IF tasks[i].last THEN "done" ELSE "gen")
    /\ UNCHANGED <<hpc, wsState, response_id, outbound>>

\* lines 177-178, and line 175 when the generator is exhausted
CheckSuperseded(i) ==
    /\ UNCHANGED <<avars, cvars, tvars, svars, wvars>>
    /\ i \in DOMAIN tasks
    /\ tasks[i].pc = "sent"
    /\ SetTask(i, IF Superseded(tasks[i].req, response_id) THEN "abandoned"
                  ELSE IF tasks[i].last THEN "done" ELSE "gen")
    /\ UNCHANGED <<hpc, wsState, response_id, outbound>>

\* The exception reaching the except clause of websocket_handler
\* (lines 187-189), as it would from an awaited handle_message.
DraftRaisesIntoHandler(i) ==
    /\ UNCHANGED <<avars, cvars, tvars, svars, wvars>>
    /\ i \in DOMAIN tasks
    /\ tasks[i].pc = "gen"
    /\ SetTask(i, "draft_error")
    /\ hpc' = "ended"
    /\ wsState' = "closed"
    /\ UNCHANGED <<response_id, outbound>>

\* line 175: draft_response raises (the model call fails); the exception
\* ends the task that create_task made and reaches nobody else.
DraftRaises(i) ==
    /\ UNCHANGED <<avars, cvars, tvars, svars, wvars>>
    /\ i \in DOMAIN tasks
    /\ tasks[i].pc = "gen"
    /\ SetTask(i, "draft_error")
    /\ UNCHANGED <<hpc, wsState, response_id, outbound>>

WsNext ==
    \/ Accept
    \/ Receive
    \/ Disconnect
    \/ ReceiveInvalidFrame
    \/ \E i \in 1..MaxEvents : HandleNoType(i)
    \/ \E i \in 1..MaxEvents : HandleCallDetails(i)
    \/ \E i \in 1..MaxEvents : HandlePingPong(i)
    \/ \E i \in 1..MaxEvents : HandleUpdateOnly(i)
    \/ \E i \in 1..MaxEvents : HandleResponseRequired(i)
    \/ \E i \in 1..MaxEvents : SendFragment(i)
    \/ \E i \in 1..MaxEvents : CheckSuperseded(i)
    \/ \E i \in 1..MaxEvents : DraftRaises(i)

(***************************************************************************)
(*                      Assistant.__call__ (util.py)                       *)
(***************************************************************************)
MaxInvocations == 4     \* runnable.invoke calls the model follows

UserIds == {"None", "u1"}

Msg(role, content) == [role |-> role, content |-> content]

\* line 46: ("user", "Respond with a real output.")
Corrective == Msg("user", "Respond with a real output.")

InitialMessages ==
    {<<Msg("user", "hi")>>,
     <<Msg("user", "hi"), Msg("ai", "hello")>>,
     <<Msg("user", "hi"), Corrective>>}

\* result.content is a string or a list of content blocks; a block is a
\* dict that may have a "text" key.
StrContent(s) == [kind |-> "str", text |-> s, blocks |-> <<>>]

ListContent(bs) == [kind |-> "list", text |-> "", blocks |-> bs]

Block(has, text) == [has_text |-> has, text |-> text]

Contents ==
    {StrContent(""), StrContent("reply"),
     ListContent(<<>>),
     ListContent(<<Block(FALSE, "")>>),
     ListContent(<<Block(TRUE, "")>>),
     ListContent(<<Block(TRUE, "reply")>>),
     ListContent(<<Block(TRUE, ""), Block(TRUE, "reply")>>)}

Results == [tool_calls : {<<>>, <<"call_1">>}, content : Contents]

NoResult == [tool_calls |-> <<>>, content |-> StrContent("")]

\* not result.content
Falsy(c) == IF c.kind = "str" THEN c.text = "" ELSE c.blocks = <<>>

\* result.content[0].get("text")
FirstText(c) == IF c.blocks[1].has_text THEN c.blocks[1].text ELSE ""

\* lines 41-45: the condition of the retry
NeedsRetry(r) ==
    /\ r.tool_calls = <<>>
    /\ IF Falsy(r.content) THEN TRUE
       ELSE IF r.content.kind = "list" THEN FirstText(r.content) = ""
       ELSE FALSE

\* What self.runnable.invoke may return.
RunnableResults(s) ==
    IF s = "always_empty"
    THEN {r \in Results : r.tool_calls = <<>> /\ r.content = StrContent("")}
    ELSE Results

AIdle ==
    /\ apc = "idle"
    /\ astate = [messages |-> <<>>, user_info |-> "None", user_id |-> "None"]
    /\ aresult = NoResult
    /\ ainvocations = 0
    /\ stub = "any"

AInit ==
    /\ apc = "loop"
    /\ \E m \in InitialMessages, u \in UserIds :
          astate = [messages |-> m, user_info |-> "None", user_id |-> u]
    /\ aresult = NoResult
    /\ ainvocations = 0
    /\ stub \in {"any", "always_empty"}

\* lines 37-47: one iteration that ends in the retry branch
AssistantRetry ==
    /\ UNCHANGED <<wsvars, cvars, tvars, svars, wvars>>
    /\ apc = "loop"
    /\ ainvocations < MaxInvocations
    /\ \E r \in RunnableResults(stub) :
          /\ NeedsRetry(r)
          /\ aresult' = r
    /\ astate' = [astate EXCEPT !.user_info = astate.user_id,
                                !.messages = Append(@, Corrective)]
    /\ ainvocations' = ainvocations + 1
    /\ UNCHANGED <<apc, stub>>

\* lines 37-41, 48-50: one iteration that ends in break and the return
AssistantBreak ==
    /\ UNCHANGED <<wsvars, cvars, tvars, svars, wvars>>
    /\ apc = "loop"
    /\ ainvocations < MaxInvocations
    /\ \E r \in RunnableResults(stub) :
          /\ ~NeedsRetry(r)
          /\ aresult' = r
    /\ astate' = [astate EXCEPT !.user_info = astate.user_id]
    /\ ainvocations' = ainvocations + 1
    /\ apc' = "returned"
    /\ UNCHANGED stub

(***************************************************************************)
(*                    update_search_criteria (util.py)                     *)
(***************************************************************************)
MaxUpdates == 2         \* updates folded into search_criteria

\* lines 9-15
Fields == {"city", "state", "bedrooms", "bathrooms", "max_price", "min_price"}

None == "None"

Values == {None, "a", "b"}

\* The dicts over SearchCriteria's keys with at most k keys.
Dicts(k) ==
    UNION {[K -> Values] : K \in {S \in SUBSET Fields : Cardinality(S) <= k}}

\* A merge that keeps nothing of the current criteria.
update_search_criteria_replace(current, update) == update

\* line 23: {**current, **update}
update_search_criteria(current, update) ==
    [f \in (DOMAIN current) \cup (DOMAIN update) |->
        IF f \in DOMAIN update THEN update[f] ELSE current[f]]

\* The updates the model folds, and the criteria it starts from.
Updates == Dicts(2)

Priors == Dicts(1)

CIdle ==
    /\ search_criteria = <<>>
    /\ nupdates = 0
    /\ prior = <<>>
    /\ supplied = {}
    /\ lastNonNull = [f \in Fields |-> None]

CInit ==
    /\ search_criteria \in Priors
    /\ prior = search_criteria
    /\ nupdates = 0
    /\ supplied = {}
    /\ lastNonNull = [f \in Fields |-> None]

\* line 28: the graph folds one update into State.search_criteria
ApplyUpdate ==
    /\ UNCHANGED <<wsvars, avars, tvars, svars, wvars>>
    /\ nupdates < MaxUpdates
    /\ \E u \in Updates :
          /\ search_criteria' = update_search_criteria(search_criteria, u)
          /\ supplied' = supplied \cup DOMAIN u
          /\ lastNonNull' = [f \in Fields |->
                IF f \in DOMAIN u /\ u[f] # None THEN u[f]
                ELSE lastNonNull[f]]
    /\ nupdates' = nupdates + 1
    /\ UNCHANGED prior

(***************************************************************************)
(*                 process_criteria (assistant_search.py)                  *)
(***************************************************************************)
\* Messages of State.messages.  tool_calls holds the ids of an AIMessage's
\* tool calls in order; a message of another type has no such attribute.
AIMessage(content, tool_calls) ==
    [type |-> "ai", content |-> content, tool_calls |-> tool_calls,
     tool_call_id |-> "None"]

HumanMessage(content) ==
    [type |-> "human", content |-> content, tool_calls |-> <<>>,
     tool_call_id |-> "None"]

\* lines 26-29: ToolMessage(content=..., tool_call_id=...)
ToolMessage(content, tool_call_id) ==
    [type |-> "tool", content |-> content, tool_calls |-> <<>>,
     tool_call_id |-> tool_call_id]

\* lines 18-23.  The numbers are written as strings: the merge never
\* computes with a value, and prior values are strings.
processed_criteria ==
    [city |-> "New York City", bedrooms |-> "3", bathrooms |-> "2",
     max_price |-> "500000"]

\* lines 30-33: the f-string over processed_criteria
CriteriaText ==
    <<"The user is looking for real estates with the following search criteria: ",
      processed_criteria>>

\* line 16 evaluates state["messages"][-1].tool_calls[0]["id"] without a
\* raise: there is a last message, it has tool_calls, and they are not empty.
HasToolCall(state) ==
    /\ Len(state.messages) > 0
    /\ state.messages[Len(state.messages)].type = "ai"
    /\ Len(state.messages[Len(state.messages)].tool_calls) > 0

\* lines 14-36: the update process_criteria returns
process_criteria(state) ==
    LET tool_call_id == state.messages[Len(state.messages)].tool_calls[1]
    IN  [messages |-> <<ToolMessage("process_criteria", tool_call_id),
                        HumanMessage(CriteriaText)>>,
         search_criteria |-> processed_criteria]

\* util.py lines 27-29: the reducers of State fold the node's update in
\* (add_messages appends messages that carry no id of an existing one).
Reduce(state, update) ==
    [messages |-> state.messages \o update.messages,
     search_criteria |->
         update_search_criteria(state.search_criteria,
                                      update.search_criteria)]

ToolMessageLists ==
    {<<>>,
     <<HumanMessage("hi")>>,
     <<HumanMessage("hi"), AIMessage("hello", <<>>)>>,
     <<HumanMessage("hi"), AIMessage("", <<"call_1">>)>>,
     <<HumanMessage("hi"), AIMessage("", <<"call_2", "call_1">>)>>}

TIdle ==
    /\ tpc = "idle"
    /\ tstate = [messages |-> <<>>, search_criteria |-> <<>>]
    /\ tbefore = tstate

TInit ==
    /\ tpc = "node"
    /\ \E m \in ToolMessageLists, c \in Dicts(2) :
          tstate = [messages |-> m, search_criteria |-> c]
    /\ tbefore = tstate

\* lines 14-36 and the graph's fold of the returned update
ProcessCriteria ==
    /\ UNCHANGED <<wsvars, avars, cvars, svars, wvars>>
    /\ tpc = "node"
    /\ HasToolCall(tstate)
    /\ tstate' = Reduce(tstate, process_criteria(tstate))
    /\ tpc' = "returned"
    /\ UNCHANGED tbefore

\* line 16 raises IndexError or AttributeError; nothing in process_criteria
\* catches it, so the call ends with the exception and returns no update.
ProcessCriteriaRaises ==
    /\ UNCHANGED <<wsvars, avars, cvars, svars, wvars>>
    /\ tpc = "node"
    /\ ~HasToolCall(tstate)
    /\ tpc' = "raised"
    /\ UNCHANGED <<tstate, tbefore>>

(***************************************************************************)
(*               graphs and thread ids of sessions (server.py)             *)
(***************************************************************************)
MaxSessions == 3        \* websocket connections and SMS requests served

CallIds == {"call_a", "call_b"}

Senders == {"+1555", "+1666", "+1777"}

\* lines 32-37: the module-level graph and the thread id of the module-level
\* config are the first graph made and the first uuid drawn.
GlobalGraph == 0

GlobalThreadId == 0

Session(kind, peer, g, t) ==
    [kind |-> kind, peer |-> peer, graph |-> g, thread_id |-> t]

\* lines 32-37, after import: one graph, one thread id, nobody served yet
SIdle ==
    /\ ngraphs = 1
    /\ nuuids = 1
    /\ sessions = <<>>

\* lines 118-125: a websocket call gets a graph of its own from
\* create_graph() and a thread id of its own from uuid.uuid4()
OpenWebsocket(call_id) ==
    /\ UNCHANGED <<wsvars, avars, cvars, tvars, wvars>>
    /\ Len(sessions) < MaxSessions
    /\ sessions' = Append(sessions, Session("websocket", call_id, ngraphs, nuuids))
    /\ ngraphs' = ngraphs + 1
    /\ nuuids' = nuuids + 1

\* lines 194-203: an SMS, whoever sent it, is run by graph.invoke on the
\* module-level graph with the module-level config
HandleSms(sender) ==
    /\ UNCHANGED <<wsvars, avars, cvars, tvars, wvars>>
    /\ Len(sessions) < MaxSessions
    /\ sessions' = Append(sessions, Session("sms", sender, GlobalGraph, GlobalThreadId))
    /\ UNCHANGED <<ngraphs, nuuids>>

(***************************************************************************)
(*                       handle_webhook (server.py)                        *)
(***************************************************************************)
\* A request: whether its body parses as JSON, whether RETELL_API_KEY is
\* set, what retell.verify does with body, key and signature header, the
\* "event" of the body and its "data".
Requests ==
    [json : BOOLEAN,
     key : BOOLEAN,
     verify : {"true", "false", "raises"},
     event : {"None", "call_started", "call_ended", "call_analyzed", "other"},
     data : {"absent", "no_call_id", "call_1"}]

\* What a call of handle_webhook did: its response, the fields of the body
\* it read and the lines it printed.
Reply(status, body, read, printed) ==
    [status |-> status, body |-> body, read |-> read, printed |-> printed]

\* lines 69-73: the except clause
InternalError(read) ==
    Reply(500, "Internal Server Error", read, <<"Error in webhook">>)

\* lines 57-61 and event_messages.get(event, "Unknown event")
EventMessage(event) ==
    CASE event = "call_started" -> "Call started event"
      [] event = "call_ended" -> "Call ended event"
      [] event = "call_analyzed" -> "Call analyzed event"
      [] OTHER -> "Unknown event"

\* lines 63-67: the dispatch after the signature check
Dispatch(req) ==
    IF req.data = "absent" THEN InternalError({"event"})
    ELSE Reply(200, "received",
               {"event", "call_id"},
               <<EventMessage(req.event),
                 IF req.data = "call_1" THEN "call_1" ELSE req.event>>)

\* A handler that dispatches whatever retell.verify returned.
handle_webhook_unchecked(req) ==
    IF ~req.json \/ ~req.key \/ req.verify = "raises" THEN InternalError({})
    ELSE Dispatch(req)

\* lines 45-73
handle_webhook(req) ==
    IF ~req.json \/ ~req.key \/ req.verify = "raises" THEN InternalError({})
    ELSE IF req.verify = "false" THEN Reply(401, "Unauthorized", {}, <<>>)
    ELSE Dispatch(req)

WIdle ==
    /\ wpc = "idle"
    /\ wreq = <<>>
    /\ wresp = <<>>

WInit ==
    /\ wpc = "request"
    /\ wreq \in Requests
    /\ wresp = <<>>

\* lines 45-73: the handler answers the request
HandleWebhook ==
    /\ UNCHANGED <<wsvars, avars, cvars, tvars, svars>>
    /\ wpc = "request"
    /\ wresp' = handle_webhook(wreq)
    /\ wpc' = "done"
    /\ UNCHANGED wreq

(***************************************************************************)
(*                            specifications                               *)
(***************************************************************************)
Init == WsInit /\ AIdle /\ CIdle /\ TIdle /\ SIdle /\ WIdle

Next == WsNext

Spec == Init /\ [][Next]_vars

InitAssistant == WsInit /\ AInit /\ CIdle /\ TIdle /\ SIdle /\ WIdle

NextAssistant == AssistantRetry \/ AssistantBreak

SpecAssistant == InitAssistant /\ [][NextAssistant]_vars

InitCriteria == WsInit /\ AIdle /\ CInit /\ TIdle /\ SIdle /\ WIdle

NextCriteria == ApplyUpdate

SpecCriteria == InitCriteria /\ [][NextCriteria]_vars

NextSessions ==
    \/ \E c \in CallIds : OpenWebsocket(c)
    \/ \E n \in Senders : HandleSms(n)

SpecSessions == Init /\ [][NextSessions]_vars

InitWebhook == WsInit /\ AIdle /\ CIdle /\ TIdle /\ SIdle /\ WInit

NextWebhook == HandleWebhook

SpecWebhook == InitWebhook /\ [][NextWebhook]_vars

InitTool == WsInit /\ AIdle /\ CIdle /\ TInit /\ SIdle /\ WIdle

NextTool == ProcessCriteria \/ ProcessCriteriaRaises

SpecTool == InitTool /\ [][NextTool]_vars

\* A step of task i.  The event loop runs every task that is ready, and the
\* generator of a streaming task eventually yields, ends or raises.
TaskStep(i) ==
    IF i \notin DOMAIN tasks THEN FALSE ELSE
    \/ HandleNoType(i)
    \/ HandleCallDetails(i)
    \/ HandlePingPong(i)
    \/ HandleUpdateOnly(i)
    \/ HandleResponseRequired(i)
    \/ SendFragment(i)
    \/ CheckSuperseded(i)
    \/ DraftRaises(i)

SpecFair == Init /\ [][Next]_vars /\ \A i \in 1..MaxEvents : WF_vars(TaskStep(i))

(***************************************************************************)
(*                              properties                                 *)
(***************************************************************************)
Max(S) == CHOOSE x \in S : \A y \in S : y <= x

\* The response fragments task i has sent, in send order.
Frags(i) ==
    SelectSeq(outbound, LAMBDA e : e.ev = i /\ e.response_type = "response")

\* The ping_pong echoes task i has sent.
Echoes(i) ==
    SelectSeq(outbound, LAMBDA e : e.ev = i /\ e.response_type = "ping_pong")

IsPing(i) ==
    WellFormed(tasks[i].ev) /\ tasks[i].ev.interaction_type = "ping_pong"

IsGen(i) == WellFormed(tasks[i].ev) /\ IsGenEvent(tasks[i].ev)

IsSilent(i) ==
    /\ Has(tasks[i].ev, "interaction_type")
    /\ tasks[i].ev.interaction_type \in {"call_details", "update_only"}

InFlight(i) == tasks[i].pc \in {"gen", "sent"}

\* Task i takes its first step.
Starts(i) == tasks[i].pc = "ready" /\ tasks'[i].pc # "ready"

OthersUnchanged(i) ==
    /\ Len(tasks') = Len(tasks)
    /\ \A j \in DOMAIN tasks : j # i => tasks'[j] = tasks[j]

(* ------------------------------- C1 ------------------------------------ *)
\* C1: for two response_required events with ids A < B, A received first,
\* the outbound stream holds no fragment of generation A after a fragment of
\* generation B.
C1_NoFragmentOfAAfterB ==
    \A a, b \in DOMAIN tasks :
        (/\ a < b
         /\ IsGen(a) /\ IsGen(b)
         /\ tasks[a].ev.interaction_type = "response_required"
         /\ tasks[b].ev.interaction_type = "response_required"
         /\ tasks[a].ev.response_id < tasks[b].ev.response_id)
        => \A p, q \in DOMAIN outbound :
              (p < q /\ outbound[p].response_type = "response"
                     /\ outbound[p].ev = b)
              => ~(outbound[q].response_type = "response"
                     /\ outbound[q].ev = a)

(* ------------------------------- C2 ------------------------------------ *)
PingStateOK ==
    /\ \A p \in DOMAIN outbound :
          outbound[p].response_type = "ping_pong" =>
              (outbound[p].ev \in DOMAIN tasks /\ IsPing(outbound[p].ev))
    /\ \A i \in DOMAIN tasks : IsPing(i) =>
           /\ Len(Echoes(i)) <= 1
           /\ \A k \in DOMAIN Echoes(i) :
                 Echoes(i)[k].timestamp = tasks[i].ev.timestamp
           /\ (tasks[i].pc = "ready" => Len(Echoes(i)) = 0)
           /\ (wsState = "open" =>
                 /\ tasks[i].pc \in {"ready", "done"}
                 /\ (tasks[i].pc = "done" => Len(Echoes(i)) = 1))
           \* the echo waits for no generation: once every older task has
           \* started, the ping's handler can run
           /\ ((tasks[i].pc = "ready"
                  /\ \A j \in 1..(i - 1) : tasks[j].pc # "ready")
                 => ENABLED HandlePingPong(i))

PingStepOK ==
    \A i \in DOMAIN tasks : (IsPing(i) /\ Starts(i)) =>
        /\ response_id' = response_id
        /\ OthersUnchanged(i)
        /\ (wsState = "open" =>
              outbound' = Append(outbound,
                  Out("ping_pong", 0, tasks[i].ev.timestamp, 0, FALSE, 0, i)))

\* C2: every ping_pong event gets exactly one echo carrying its timestamp
\* (on an open socket); the echo waits for no generation in flight, and
\* sending it changes neither the active response id nor any other task.
C2_PingEchoedOnce == [](PingStateOK) /\ [][PingStepOK]_vars

\* A ping was echoed while a generation received before it was in flight.
C2_Witness ==
    \E i, j \in DOMAIN tasks :
        /\ j < i
        /\ IsPing(i) /\ tasks[i].pc = "done" /\ Len(Echoes(i)) = 1
        /\ IsGen(j) /\ InFlight(j) /\ Len(Frags(j)) = 1
        /\ response_id = tasks[j].req.response_id
        /\ wsState = "open"

(* ------------------------------- C5 ------------------------------------ *)
\* C5: at its check after a fragment, a task whose response id is not the
\* active one stops: it does not go back to wait for another fragment.
C5_StopsWhenNotActive ==
    [][\A i \in DOMAIN tasks :
          (/\ tasks[i].pc = "sent"
           /\ tasks'[i].pc # "sent"
           /\ tasks[i].req.response_id # response_id)
          => tasks'[i].pc # "gen"]_vars

(* ------------------------------- C6 ------------------------------------ *)
\* The response/reminder events carrying a response id handled so far.
Handled ==
    {i \in DOMAIN tasks :
        /\ IsGenEvent(tasks[i].ev)
        /\ Has(tasks[i].ev, "response_id")
        /\ tasks[i].pc # "ready"}

\* C6: the active response id is the id of the most recently handled
\* response_required/reminder_required event (0 before the first), and each
\* handled well-formed one has one generation, for its id and on its
\* transcript snapshot.
C6_ActiveIsLastHandled ==
    /\ response_id = IF Handled = {} THEN 0
                     ELSE tasks[Max(Handled)].ev.response_id
    /\ \A i \in DOMAIN tasks :
          /\ (IsGen(i) /\ tasks[i].pc # "ready") =>
                /\ tasks[i].req.response_id = tasks[i].ev.response_id
                /\ tasks[i].req.transcript = i
                /\ tasks[i].req.interaction_type = tasks[i].ev.interaction_type
                /\ \A k \in DOMAIN Frags(i) :
                      /\ Frags(i)[k].response_id = tasks[i].ev.response_id
                      /\ Frags(i)[k].transcript = i
          /\ (tasks[i].pc = "ready" \/ ~IsGen(i)) =>
                /\ tasks[i].req = NoRequest
                /\ Frags(i) = <<>>

\* A lower id was handled after a higher one and is now the active id,
\* while both generations stream.
C6_Witness ==
    \E i, j \in DOMAIN tasks :
        /\ i < j
        /\ IsGen(i) /\ IsGen(j)
        /\ tasks[i].ev.response_id > tasks[j].ev.response_id
        /\ Len(Frags(i)) >= 1 /\ Len(Frags(j)) >= 1
        /\ response_id = tasks[j].ev.response_id

(* ------------------------------- C7 ------------------------------------ *)
\* C7: the fragments of one generation appear in the outbound stream in the
\* order the generator yielded them, each once: the k-th one sent is the
\* k-th one yielded, and only the last can be the complete one.
C7_FragmentsInOrder ==
    \A i \in DOMAIN tasks :
        /\ \A k \in DOMAIN Frags(i) :
              /\ Frags(i)[k].n = k
              /\ (k < Len(Frags(i)) => ~Frags(i)[k].content_complete)
        /\ Len(Frags(i)) <= tasks[i].n
        /\ (wsState = "open" => Len(Frags(i)) = tasks[i].n)

\* Two generations each sent two fragments, interleaved on the socket.
C7_Witness ==
    \E i, j \in DOMAIN tasks :
        /\ i # j
        /\ Len(Frags(i)) = 2 /\ Len(Frags(j)) = 2
        /\ \E p, q, r \in DOMAIN outbound :
              /\ p < q /\ q < r
              /\ outbound[p].ev = i /\ outbound[q].ev = j
              /\ outbound[r].ev = i

(* ------------------------------- C8 ------------------------------------ *)
\* C8: handling a call_details or update_only event sends nothing, starts no
\* generation and leaves the active response id (and every other task) as
\* it was.
C8_SilentEvents ==
    [][\A i \in DOMAIN tasks : (IsSilent(i) /\ Starts(i)) =>
          /\ outbound' = outbound
          /\ response_id' = response_id
          /\ tasks'[i].pc = "done"
          /\ tasks'[i].req = NoRequest
          /\ OthersUnchanged(i)]_vars

\* Both kinds were handled while a generation was streaming.
C8_Witness ==
    \E i, j, k \in DOMAIN tasks :
        /\ IsGen(i) /\ InFlight(i) /\ Len(Frags(i)) >= 1
        /\ i < j /\ i < k
        /\ tasks[j].ev.interaction_type = "call_details"
        /\ tasks[k].ev.interaction_type = "update_only"
        /\ tasks[j].pc = "done" /\ tasks[k].pc = "done"
        /\ response_id = tasks[i].req.response_id

(* ------------------------------- C9 ------------------------------------ *)
\* C9: an event lacking a required field fails only its own task: handling
\* it changes neither the active response id, nor the receive loop, nor the
\* socket, nor the outbound stream, nor another task.
C9_MalformedFailsAlone ==
    [][\A i \in DOMAIN tasks : (~WellFormed(tasks[i].ev) /\ Starts(i)) =>
          /\ tasks'[i].pc = "key_error"
          /\ response_id' = response_id
          /\ hpc' = hpc
          /\ wsState' = wsState
          /\ outbound' = outbound
          /\ OthersUnchanged(i)]_vars

(* ------------------------------- C10 ----------------------------------- *)
\* Task i was ended by an exception of draft_response.
DraftFailed(i) == tasks[i].pc = "draft_error"

DraftFailureStateOK ==
    \A i \in DOMAIN tasks : (DraftFailed(i) /\ wsState = "open") =>
        /\ hpc = "loop"
        /\ \A j \in DOMAIN tasks : j > i =>
              /\ (IsPing(j) /\ tasks[j].pc = "ready"
                    /\ \A k \in 1..(j - 1) : tasks[k].pc # "ready")
                   => ENABLED HandlePingPong(j)
              /\ (IsGen(j) /\ tasks[j].pc = "ready"
                    /\ \A k \in 1..(j - 1) : tasks[k].pc # "ready")
                   => ENABLED HandleResponseRequired(j)
              /\ (IsGen(j) /\ tasks[j].pc = "gen") => ENABLED SendFragment(j)

DraftFailureStepOK ==
    \A i \in DOMAIN tasks :
        (tasks[i].pc = "gen" /\ tasks'[i].pc = "draft_error") =>
            /\ hpc' = hpc
            /\ wsState' = wsState
            /\ response_id' = response_id
            /\ outbound' = outbound
            /\ OthersUnchanged(i)

\* C10: an exception of draft_response ends only its own task: the receive
\* loop and the socket stay as they were, and on the open socket later pings
\* can still be echoed and later generations can still start and send.
C10_DraftFailureKeepsSession ==
    [](DraftFailureStateOK) /\ [][DraftFailureStepOK]_vars

\* After a generation failed, a later ping was echoed and a later
\* response_required generation sent a fragment, on the open socket.
C10_Witness ==
    \E i, j, k \in DOMAIN tasks :
        /\ i < j /\ i < k
        /\ DraftFailed(i)
        /\ IsPing(j) /\ Len(Echoes(j)) = 1
        /\ IsGen(k) /\ tasks[k].ev.interaction_type = "response_required"
        /\ Len(Frags(k)) >= 1
        /\ \E p, q \in DOMAIN outbound :
              /\ outbound[p].ev = i /\ outbound[q].ev = k /\ p < q
        /\ wsState = "open" /\ hpc = "loop"

(* ------------------------------- C3 ------------------------------------ *)
RetryCap == 2           \* the retry cap the claim speaks of

\* C3: with a runnable that always returns empty content and no tool call,
\* Assistant.__call__ has returned once it made more than RetryCap calls.
C3_ReturnsWithinCap ==
    (stub = "always_empty" /\ ainvocations > RetryCap) => apc = "returned"

(* ------------------------------- C4 ------------------------------------ *)
\* C4: each field of the folded criteria holds the last non-null value an
\* update carried for it, and a field no update carried keeps its prior
\* value (or absence).
C4_LastNonNullWins ==
    \A f \in Fields :
        /\ lastNonNull[f] # None =>
              (f \in DOMAIN search_criteria
                 /\ search_criteria[f] = lastNonNull[f])
        /\ f \notin supplied =>
              /\ (f \in DOMAIN search_criteria <=> f \in DOMAIN prior)
              /\ (f \in DOMAIN prior => search_criteria[f] = prior[f])
C16_ActiveNeverDecreases == [][response_id' >= response_id]_vars

(* ------------------------------- C17 ----------------------------------- *)
\* A task that finds its id below the active one at its check stops there.
SupersededStops ==
    \A i \in DOMAIN tasks :
        (/\ tasks[i].pc = "sent" /\ tasks'[i].pc # "sent"
         /\ tasks[i].req.response_id < response_id)
        => tasks'[i].pc = "abandoned"

C18_NoSpuriousAbandon ==
    \A i \in DOMAIN tasks :
        /\ tasks[i].pc = "abandoned" =>
              \E j \in Handled :
                  j > i /\ tasks[j].ev.response_id > tasks[i].req.response_id
        /\ (IsGen(i) /\ tasks[i].pc = "done") =>
              /\ tasks[i].last
              /\ (wsState = "open" =>
                    /\ Len(Frags(i)) = tasks[i].n
                    /\ Frags(i)[Len(Frags(i))].content_complete)

\* A generation sent both its fragments and ended normally although a ping
\* and a later event with the same response id were handled while it streamed.
C18_Witness ==
    \E i, j, k \in DOMAIN tasks :
        /\ i < j /\ i < k
        /\ IsGen(i) /\ tasks[i].pc = "done" /\ Len(Frags(i)) = 2
        /\ IsGen(j) /\ tasks[j].ev.response_id = tasks[i].ev.response_id
        /\ IsPing(k) /\ Len(Echoes(k)) = 1
        /\ \E p, q \in DOMAIN outbound :
              /\ p < q
              /\ outbound[p].ev = j
              /\ outbound[q].ev = i /\ outbound[q].n = 2
(* ------------------------------- C19 ----------------------------------- *)
\* Content in which no block carries text: the empty string, the empty
\* list, or a list whose blocks all lack text or have the empty text.
NoText(c) ==
    IF c.kind = "str" THEN c.text = ""
    ELSE \A b \in DOMAIN c.blocks :
             ~c.blocks[b].has_text \/ c.blocks[b].text = ""

\* One iteration of the loop: it goes round again exactly when the result
\* has no tool call and no text, then with one corrective message appended
\* to the unchanged messages; otherwise the messages stay and the call
\* returns.
RetryStepOK ==
    (apc = "loop" /\ ainvocations' = ainvocations + 1) =>
        /\ (apc' = "loop") <=>
               (aresult'.tool_calls = <<>> /\ NoText(aresult'.content))
        /\ apc' = "loop" => astate'.messages = Append(astate.messages, Corrective)
        /\ apc' # "loop" =>
               /\ apc' = "returned"
               /\ astate'.messages = astate.messages

\* C19: Assistant.__call__ invokes the model again exactly while the result
\* has no tool call and empty content, each retry appends one corrective
\* user message after the unchanged messages, and the first result with a
\* tool call or non-empty content ends the loop and is returned.
C19_RetriesWhileEmpty == [][RetryStepOK]_vars
(* ------------------------------- C11 ----------------------------------- *)
\* C11: process_criteria called on a state whose last message carries no
\* tool call does not end with the exception; it leaves a tool-result
\* message that carries an error indicator as the last message.
C11_ToolFailureCaptured ==
    /\ tpc # "raised"
    /\ (tpc = "returned" /\ ~HasToolCall(tbefore)) =>
          /\ Len(tstate.messages) > Len(tbefore.messages)
          /\ tstate.messages[Len(tstate.messages)].type = "tool"

(* ------------------------------- C20 ----------------------------------- *)
\* C20: after process_criteria returned, the criteria have city "New York
\* City", bedrooms 3, bathrooms 2 and max_price 500000, state and min_price
\* are as before (present or absent, same value), and the messages are the
\* earlier ones followed by a tool message bound to the first tool call of
\* the last earlier message and then a user message stating the criteria.
C20_ProcessCriteriaResult ==
    tpc = "returned" =>
        LET before == tbefore.search_criteria
            after == tstate.search_criteria
            last == tbefore.messages[Len(tbefore.messages)]
            n == Len(tbefore.messages)
        IN  /\ HasToolCall(tbefore)
            /\ {"city", "bedrooms", "bathrooms", "max_price"} \subseteq DOMAIN after
            /\ after["city"] = "New York City"
            /\ after["bedrooms"] = "3"
            /\ after["bathrooms"] = "2"
            /\ after["max_price"] = "500000"
            /\ \A f \in {"state", "min_price"} :
                  /\ f \in DOMAIN after <=> f \in DOMAIN before
                  /\ f \in DOMAIN before => after[f] = before[f]
            /\ Len(tstate.messages) = n + 2
            /\ SubSeq(tstate.messages, 1, n) = tbefore.messages
            /\ tstate.messages[n + 1].type = "tool"
            /\ tstate.messages[n + 1].tool_call_id = last.tool_calls[1]
            /\ tstate.messages[n + 2].type = "human"
            /\ tstate.messages[n + 2].content = CriteriaText

\* The node returned on a state that had a min_price and another city, with
\* two tool calls on its last message.
C20_Witness ==
    /\ tpc = "returned"
    /\ Len(tbefore.messages[Len(tbefore.messages)].tool_calls) = 2
    /\ DOMAIN tbefore.search_criteria = {"min_price", "city"}
    /\ tbefore.search_criteria["city"] = "a"
    /\ tbefore.search_criteria["min_price"] = "b"
    /\ tstate.search_criteria["min_price"] = "b"
(* ------------------------------- C12 ----------------------------------- *)
\* Two served requests belong to one session: SMS of one sender.  Every
\* websocket connection is a session of its own.
SameSession(a, b) == a.kind = "sms" /\ b.kind = "sms" /\ a.peer = b.peer

\* C12: each session runs on its own graph state and thread id: two
\* requests that run on the same graph under the same thread id belong to
\* the same session.
C12_SessionsIsolated ==
    \A i, j \in DOMAIN sessions :
        (/\ i # j
         /\ sessions[i].graph = sessions[j].graph
         /\ sessions[i].thread_id = sessions[j].thread_id)
        => SameSession(sessions[i], sessions[j])
(* ------------------------------- C15 ----------------------------------- *)
\* C15: a request for which retell.verify returned false is answered 401
\* Unauthorized, and nothing of its body is read or printed; a 200 reply,
\* a read of event or call_id and a printed event line occur only for a
\* request whose signature verified, and such a request with a data
\* object is answered 200 received.
C15_UnauthorizedRejected ==
    wpc = "done" =>
        /\ (wreq.json /\ wreq.key /\ wreq.verify = "false") =>
              /\ wresp.status = 401
              /\ wresp.body = "Unauthorized"
              /\ wresp.read = {}
              /\ wresp.printed = <<>>
        /\ (wresp.status = 200 \/ wresp.read # {}) =>
              (wreq.json /\ wreq.key /\ wreq.verify = "true")
        /\ wreq.verify # "true" =>
              (wresp.printed = <<>> \/ wresp.printed = <<"Error in webhook">>)
        /\ (wreq.json /\ wreq.key /\ wreq.verify = "true" /\ wreq.data # "absent") =>
              (wresp.status = 200 /\ wresp.body = "received")

\* A call_started event for call_1 with a signature that does not verify
\* was answered 401.
C15_Witness ==
    /\ wpc = "done"
    /\ wreq.verify = "false" /\ wreq.event = "call_started"
    /\ wreq.data = "call_1"
    /\ wresp.status = 401
====
